---- MODULE Spec2Model ----
(***************************************************************************)
(* Crawl orchestration of fb-post-scraper: the page handler registered     *)
(* with the crawl engine (src/src/main.ts), the extraction passes and the  *)
(* video acquisition subflow (page module, src/unnamed/part_000 and        *)
(* part_001), and the aggregation store the handler writes to.             *)
(*                                                                         *)
(* src/src/main.ts holds two variants of the program.  Variant 1 is        *)
(* main.ts:1-444 with the page module of part_000; variant 2 is            *)
(* main.ts:446-872 with the page module of part_001.  The variable         *)
(* `variant` says which one runs.                                          *)
(***************************************************************************)
EXTENDS Integers, Sequences, FiniteSets, TLC

(* ------------------------------ bounds -------------------------------- *)
NumSeeds == 2          \* seed POST requests of a run
MaxWorkers == 2        \* handler invocations the engine's pool can hold at once
MaxFetches == 5        \* handler invocations of a run
MaxProbes == 2         \* re-probes of the cookie prompt the model follows
MaxResumes == 1        \* restarts of an interrupted run
MaxLinks == 2          \* outbound link elements of a post
MaxMatches == 3        \* matches of one counting pattern

(* ------------------------- program constants -------------------------- *)
MaxRequestRetries1 == 10
MaxRequestRetries2 == 3

Variants == {1, 2}
Authors == {"alice", "bob"}
Workers == 1..MaxWorkers

\* JS null; every field value of the model is a tuple, so that
\* any two of them can be compared.
Null == <<"null">>
EmptyObject == [k \in {} |-> Null]

LABELS == [POST |-> "POST", PHOTO |-> "PHOTO", VIDEO |-> "VIDEO"]

PostUrl(i) == <<"post", i>>

(* ------------------------------ failures ------------------------------ *)
NoError == [class |-> "none", namespace |-> "none"]
InfoError(ns) == [class |-> "InfoError", namespace |-> ns]
PlainError(msg) == [class |-> "Error", namespace |-> msg]
TimeoutError(what) == [class |-> "TimeoutError", namespace |-> what]
TypeError(what) == [class |-> "TypeError", namespace |-> what]

useSessionPool(v) == v = 1
\* (mutation) the crawler of variant 2 is given the ceiling of variant 1
maxRequestRetries_Swapped(v) == IF v = 1 THEN MaxRequestRetries2 ELSE MaxRequestRetries1

maxRequestRetries(v) == IF v = 1 THEN MaxRequestRetries1 ELSE MaxRequestRetries2

VARIABLES
    variant,     \* which variant of main.ts runs
    maxConcurrency, \* the crawler's maxConcurrency option
    requests,    \* requestQueue: uniqueKey (url) -> request and its queue status
    queue,       \* requestQueue: the pending requests, in fetch order
    fetches,     \* handler invocations the engine has started
    state,       \* the aggregation store: username -> record
    pc,          \* per worker: where its handler invocation stands
    cur,         \* per worker: url of the request being handled
    page,        \* per worker: the page the engine loaded, until the block checks read it
    session,     \* per worker: the session handed to the handler
    tab,         \* per worker: the browser tab of the invocation
    stats,       \* per worker: outcome of getPostInfoFromScript
    content,     \* per worker: outcome of getPostContent
    todo,        \* per worker: follow-up urls still to enqueue
    videoUrl,    \* per worker: result of getVideoUrl
    stored,      \* per worker: what map.append read for the merge in progress
    lock,        \* the store: the authors with an append in progress
    written,     \* the requests one of whose attempts has called map.write
    err,         \* per worker: the failure caught by the handler's catch block
    thrown,      \* per worker: the failure that left the handler
    trace,       \* per worker: the calls this invocation has made so far
    probes,      \* per worker: re-probes of the cookie prompt made by the loop in progress
    phase,       \* where Apify.main stands: seeds, crawl, persist, push, end, aborted
    persisted,   \* durable storage: what persistState last saved of the store
    dataset,     \* the dataset sink: the arrays pushed so far
    resumes,     \* restarts of the run so far
    seeds,       \* processedRequests: the start urls the seed loop goes through
    warnings,    \* the urls the seed loop has logged a warning for
    seedIx,      \* the position in seeds of the start url the loop takes next
    input,       \* what Apify.getInput() returned
    mainError,   \* the error Apify.main has thrown
    arg,         \* input of the function under study
    res          \* its result

seedVars == <<seeds, warnings, seedIx, input, mainError>>
pureVars == <<arg, res>>
runVars == <<phase, persisted, dataset, resumes>>

vars == <<variant, maxConcurrency, requests, queue, fetches, state, pc, cur, page, session, tab,
          stats, content, todo, videoUrl, stored, lock, written, err, thrown, trace, probes,
          runVars, seedVars, pureVars>>


(* --------------------------- the block checks ------------------------- *)
\* What the handler can observe of a loaded page before extraction.
BlockPages ==
    [next : BOOLEAN,              \* page.url() contains '?next='
     mobileCaptcha : BOOLEAN,     \* CSS_SELECTORS.MOBILE_CAPTCHA matches
     mobileMeta : BOOLEAN,        \* CSS_SELECTORS.MOBILE_META appears within 15 s
     mobileBodyClass : BOOLEAN,   \* CSS_SELECTORS.MOBILE_BODY_CLASS appears within 15 s
     desktopCaptcha : BOOLEAN,    \* CSS_SELECTORS.DESKTOP_CAPTCHA matches
     title : {"Error", "Other", "absent"}]

\* (mutation) the mobile captcha check comes before the login check
BlockCheck_CaptchaFirst(useMobile, pg) ==
    IF useMobile /\ pg.mobileCaptcha THEN InfoError("captcha")
    ELSE IF pg.next THEN InfoError("login")
    ELSE IF useMobile /\ ~(pg.mobileMeta /\ pg.mobileBodyClass) THEN InfoError("mobile-meta")
    ELSE IF ~useMobile /\ pg.desktopCaptcha THEN InfoError("captcha")
    ELSE IF pg.title = "absent" THEN PlainError("failed to find element matching selector title")
    ELSE IF pg.title = "Error" THEN InfoError("internal")
    ELSE NoError

\* (mutation) Promise.race instead of Promise.all: one mobile marker is enough
BlockCheck_OneMarkerEnough(useMobile, pg) ==
    IF pg.next THEN InfoError("login")
    ELSE IF useMobile /\ pg.mobileCaptcha THEN InfoError("captcha")
    ELSE IF useMobile /\ ~(pg.mobileMeta \/ pg.mobileBodyClass) THEN InfoError("mobile-meta")
    ELSE IF ~useMobile /\ pg.desktopCaptcha THEN InfoError("captcha")
    ELSE IF pg.title = "absent" THEN PlainError("failed to find element matching selector title")
    ELSE IF pg.title = "Error" THEN InfoError("internal")
    ELSE NoError

\* (mutation) the title check sits inside the desktop-only branch
BlockCheck_TitleDesktopOnly(useMobile, pg) ==
    IF pg.next THEN InfoError("login")
    ELSE IF useMobile /\ pg.mobileCaptcha THEN InfoError("captcha")
    ELSE IF useMobile /\ ~(pg.mobileMeta /\ pg.mobileBodyClass) THEN InfoError("mobile-meta")
    ELSE IF ~useMobile /\ pg.desktopCaptcha THEN InfoError("captcha")
    ELSE IF useMobile THEN NoError
    ELSE IF pg.title = "absent" THEN PlainError("failed to find element matching selector title")
    ELSE IF pg.title = "Error" THEN InfoError("internal")
    ELSE NoError

\* The first failing check decides; NoError when the page passes all of them.
\* (mutation) a mobile page's layout markers are looked for before its captcha marker
BlockCheck_LayoutBeforeCaptcha(useMobile, pg) ==
    IF pg.next THEN InfoError("login")
    ELSE IF useMobile /\ ~(pg.mobileMeta /\ pg.mobileBodyClass) THEN InfoError("mobile-meta")
    ELSE IF useMobile /\ pg.mobileCaptcha THEN InfoError("captcha")
    ELSE IF ~useMobile /\ pg.desktopCaptcha THEN InfoError("captcha")
    ELSE IF pg.title = "absent" THEN PlainError("failed to find element matching selector title")
    ELSE IF pg.title = "Error" THEN InfoError("internal")
    ELSE NoError

BlockCheck(useMobile, pg) ==
    IF pg.next THEN InfoError("login")
    ELSE IF useMobile /\ pg.mobileCaptcha THEN InfoError("captcha")
    ELSE IF useMobile /\ ~(pg.mobileMeta /\ pg.mobileBodyClass) THEN InfoError("mobile-meta")
    ELSE IF ~useMobile /\ pg.desktopCaptcha THEN InfoError("captcha")
    ELSE IF pg.title = "absent" THEN PlainError("failed to find element matching selector title")
    ELSE IF pg.title = "Error" THEN InfoError("internal")
    ELSE NoError

(* ------------------------------ stats pass ---------------------------- *)
RECURSIVE toNumber(_)
\* +value for what (\d+) has captured, a sequence of decimal digits
toNumber(digits) ==
    IF digits = <<>> THEN 0
    ELSE 10 * toNumber(SubSeq(digits, 1, Len(digits) - 1)) + digits[Len(digits)]

RECURSIVE reduceMax_Last(_, _)
\* (mutation) the reduce keeps the value of the match it saw last
reduceMax_Last(matches, count) ==
    IF matches = <<>> THEN count
    ELSE reduceMax_Last(Tail(matches), toNumber(Head(matches)))

RECURSIVE reduceMax(_, _)
\* [...matches].reduce((count, [, value]) => (+value > count ? +value : count), count)
reduceMax(matches, count) ==
    IF matches = <<>> THEN count
    ELSE reduceMax(Tail(matches),
                   IF toNumber(Head(matches)) > count THEN toNumber(Head(matches)) ELSE count)

maxFromMatches(matches) == reduceMax(matches, 0)

toLowerCase(t) ==
    CASE t = "LIKE" -> "like"
      [] t = "LOVE" -> "love"
      [] t = "Like" -> "like"
      [] OTHER -> t

\* The fragment between 'top_reactions:{edges:' and '}]}' of the filtered scripts:
\*   absent        the first marker is not in the text
\*   syntax-error  the text between the markers does not evaluate
\*   non-list      it evaluates to a value that has no reduce
\*   null-node     it evaluates to a list one of whose elements is null
\*   edges         it evaluates to a list of {node: {reaction_type}, reaction_count}
Fragments ==
    {[kind |-> "absent", edges |-> <<>>],
     [kind |-> "syntax-error", edges |-> <<>>],
     [kind |-> "non-list", edges |-> <<>>],
     [kind |-> "null-node", edges |-> <<>>],
     [kind |-> "edges", edges |-> <<[reaction_type |-> "LIKE", reaction_count |-> 4],
                                    [reaction_type |-> "LOVE", reaction_count |-> 1]>>]}

\* The try/catch around eval: the list the reduce then runs over, or a
\* marker when what eval returned is not such a list.
reactionsBreakdown(frag) ==
    CASE frag.kind \in {"absent", "syntax-error"} -> [list |-> TRUE, nodes |-> <<>>, bad |-> FALSE]
      [] frag.kind = "non-list" -> [list |-> FALSE, nodes |-> <<>>, bad |-> FALSE]
      [] frag.kind = "null-node" -> [list |-> TRUE, nodes |-> <<>>, bad |-> TRUE]
      [] OTHER -> [list |-> TRUE, nodes |-> frag.edges, bad |-> FALSE]

RECURSIVE reduceBreakdown(_, _)
\* nodes.reduce((out, node) => { out[type.toLowerCase()] = node.reaction_count; return out }, out)
reduceBreakdown(nodes, out) ==
    IF nodes = <<>> THEN out
    ELSE LET node == Head(nodes)
             key == toLowerCase(node.reaction_type)
         IN  reduceBreakdown(Tail(nodes),
                [k \in DOMAIN out \cup {key} |-> IF k = key THEN node.reaction_count ELSE out[k]])

breakdownOf(nodes) == reduceBreakdown(nodes, EmptyObject)

\* The scripts of a post page as the stats pass reads them.
ScriptPages ==
    {[evalOk |-> ok, comments |-> <<>>, reactions |-> <<>>, shares |-> <<>>, fragment |-> f] :
        ok \in BOOLEAN, f \in Fragments}
    \cup
    {[evalOk |-> TRUE, comments |-> <<<<3>>, <<7>>>>, reactions |-> <<<<5>>>>, shares |-> <<>>,
      fragment |-> f] : f \in {g \in Fragments : g.kind = "edges"}}

\* [threw, error, value]
getPostInfoFromScript(sp) ==
    LET rb == reactionsBreakdown(sp.fragment) IN
    IF ~sp.evalOk
    THEN [threw |-> TRUE, error |-> PlainError("Evaluation failed"), value |-> Null]
    ELSE IF ~rb.list
    THEN [threw |-> TRUE, error |-> TypeError("reactionsBreakdown.reduce is not a function"),
          value |-> Null]
    ELSE IF rb.bad
    THEN [threw |-> TRUE, error |-> TypeError("Cannot read property 'reaction_count' of null"),
          value |-> Null]
    ELSE [threw |-> FALSE, error |-> NoError,
          value |-> [comments |-> maxFromMatches(sp.comments),
                     reactions |-> maxFromMatches(sp.reactions),
                     reactionsBreakdown |-> breakdownOf(rb.nodes),
                     shares |-> maxFromMatches(sp.shares)]]

(* ----------------------------- content pass --------------------------- *)
\* Links are tuples <<kind, host, id, query>>: kind "videos" when the href
\* contains '/videos/', host the prefix before '.facebook.com', query
\* whether the href carries a '?...' part.
VideoLink(host, id, query) == <<"videos", host, id, query>>
PhotoLink(id) == <<"photo", "www", id, FALSE>>
includesVideos(link) == link[1] = "videos"

\* link.replace('/www.', '/m.')
replaceWwwWithM(link) == <<link[1], IF link[2] = "www" THEN "m" ELSE link[2], link[3], link[4]>>

\* part_001:90-92: cut at '?' and move to the mobile host, only when there is a query
normalizeVideoPostUrl(link) ==
    IF link # Null /\ link[4] THEN replaceWwwWithM(<<link[1], link[2], link[3], FALSE>>)
    ELSE link

RECURSIVE find(_, _)
\* Array.prototype.find for the '/videos/' test, with the '|| null' that follows it
find(links, dflt) ==
    IF links = <<>> THEN dflt
    ELSE IF includesVideos(Head(links)) THEN Head(links)
    ELSE find(Tail(links), dflt)

\* What the content pass can observe of a post page.
ContentPages ==
    {[container |-> c, userContent |-> u, headerLinks |-> <<>>, images |-> <<>>] :
        c \in BOOLEAN, u \in BOOLEAN}
    \cup
    {[container |-> TRUE, userContent |-> TRUE,
      headerLinks |-> <<PhotoLink(1), VideoLink("www", 1, TRUE)>>,
      images |-> <<PhotoLink(1), VideoLink("www", 1, FALSE), VideoLink("www", 2, FALSE)>>],
     [container |-> TRUE, userContent |-> TRUE,
      headerLinks |-> <<PhotoLink(1)>>, images |-> <<>>]}

\* [threw, error, value]; url is page.url()
getPostContent(v, cp, url) ==
    IF ~cp.container
    THEN [threw |-> TRUE, error |-> TimeoutError("waiting for selector POST_CONTAINER"),
          value |-> Null]
    ELSE IF ~cp.userContent
    THEN [threw |-> TRUE, error |-> PlainError("Missing .userContent"), value |-> Null]
    ELSE [threw |-> FALSE, error |-> NoError,
          value |->
            IF v = 1
            THEN [name |-> <<"name">>, postText |-> <<"text">>,
                  postImages |-> cp.images, postUrl |-> url]
            ELSE [name |-> <<"name">>, postText |-> <<"text">>,
                  postImages |-> cp.images, postUrl |-> url,
                  videoPostUrl |-> normalizeVideoPostUrl(find(cp.headerLinks, Null))]]

(* --------------------------- video acquisition ------------------------ *)
VideoSrc == <<"src">>
VideoPages ==
    [widePic : BOOLEAN,        \* '.widePic' exists
     viewport : BOOLEAN,       \* '#viewport' exists
     poster : BOOLEAN,         \* '.widePic > div > div' exists
     video : {"absent", "nosrc", "src"}]   \* the video element after the click

videoSrcOrNull(vp) == IF vp.video = "src" THEN VideoSrc ELSE Null

\* part_000:149-172
getVideoUrl1(vp) ==
    IF ~vp.widePic
    THEN [threw |-> TRUE, error |-> TimeoutError("waiting for selector .widePic"), value |-> Null]
    ELSE IF ~vp.viewport
    THEN [threw |-> TRUE, error |-> PlainError("failed to find element matching selector #viewport"),
          value |-> Null]
    ELSE IF ~vp.poster
    THEN [threw |-> FALSE, error |-> NoError, value |-> Null]
    ELSE IF vp.video = "absent"
    THEN [threw |-> TRUE, error |-> TimeoutError("waiting for selector video"), value |-> Null]
    ELSE [threw |-> FALSE, error |-> NoError, value |-> videoSrcOrNull(vp)]

\* part_001:174-191, what follows the cookie-prompt loop
getVideoUrl2(vp) ==
    IF ~vp.poster
    THEN [threw |-> TRUE, error |-> TimeoutError("waiting for selector .widePic > div > div"),
          value |-> Null]
    ELSE IF vp.video = "absent"
    THEN [threw |-> TRUE, error |-> TimeoutError("waiting for selector video"), value |-> Null]
    ELSE [threw |-> FALSE, error |-> NoError, value |-> videoSrcOrNull(vp)]

getVideoUrl(v, vp) == IF v = 1 THEN getVideoUrl1(vp) ELSE getVideoUrl2(vp)

(* --------------------------- aggregation store ------------------------ *)
\* state.get(key), as a list of at most one record
\* (mutation) a missing record is read as a record of empty fields
Get_EmptyState(st, key) == IF key \in DOMAIN st THEN <<st[key]>> ELSE <<[name |-> Null]>>

Get(st, key) == IF key \in DOMAIN st THEN <<st[key]>> ELSE <<>>

write(st, key, record) ==
    [k \in DOMAIN st \cup {key} |-> IF k = key THEN record ELSE st[k]]

\* (mutation) the store does not make an append wait for another one
Locked_Never(held, key) == FALSE

\* The store serializes the appends of an author: an append, or a write, for
\* key has to wait while another append for key is in progress.
Locked(held, key) == key \in held

\* {...content, postStats}
withStats(c, postStats) ==
    [k \in DOMAIN c \cup {"postStats"} |-> IF k = "postStats" THEN postStats ELSE c[k]]

\* (mutation) the merge forgets to delete videoPostUrl
mergeFn_KeepsPending(v, value, requestUrl, vUrl) ==
    LET old == IF value = <<>> THEN EmptyObject ELSE value[1]
    IN  [k \in DOMAIN old \cup {"postVideos"} |->
            IF k = "postVideos" THEN <<[postUrl |-> requestUrl, videoUrl |-> vUrl]>> ELSE old[k]]

\* (mutation) the merge adds its VideoRef to the ones already stored
mergeFn_Accumulates(v, value, requestUrl, vUrl) ==
    LET old == IF value = <<>> THEN EmptyObject ELSE value[1]
        kept == IF v = 1 THEN DOMAIN old ELSE DOMAIN old \ {"videoPostUrl"}
        ref == IF v = 1 THEN [videoUrl |-> vUrl]
               ELSE [postUrl |-> requestUrl, videoUrl |-> vUrl]
        before == IF "postVideos" \in DOMAIN old THEN old.postVideos ELSE <<>>
    IN  [k \in kept \cup {"postVideos"} |->
            IF k = "postVideos" THEN Append(before, ref) ELSE old[k]]

\* The function the VIDEO branch hands to map.append; value is Get's result.
mergeFn(v, value, requestUrl, vUrl) ==
    LET old == IF value = <<>> THEN EmptyObject ELSE value[1]
        kept == IF v = 1 THEN DOMAIN old ELSE DOMAIN old \ {"videoPostUrl"}
        ref == IF v = 1 THEN [videoUrl |-> vUrl]
               ELSE [postUrl |-> requestUrl, videoUrl |-> vUrl]
    IN  [k \in kept \cup {"postVideos"} |-> IF k = "postVideos" THEN <<ref>> ELSE old[k]]

\* map.append(key, fn) with the VIDEO branch's callback as fn: the record
\* stored for key becomes fn of the one stored before (or of none).
append(st, key, v, requestUrl, vUrl) ==
    write(st, key, mergeFn(v, Get(st, key), requestUrl, vUrl))

\* (mutation) variant 2 enqueues like variant 1, from the image links
followUps_FromImages(v, c) ==
    LET vids == SelectSeq(c.postImages, includesVideos)
    IN  [i \in 1..Len(vids) |-> replaceWwwWithM(vids[i])]

\* The urls the POST branch hands to initVideoPage, in order.
followUps(v, c) ==
    IF v = 1
    THEN LET vids == SelectSeq(c.postImages, includesVideos)
         IN  [i \in 1..Len(vids) |-> replaceWwwWithM(vids[i])]
    ELSE IF c.videoPostUrl # Null THEN <<c.videoPostUrl>> ELSE <<>>

(* ---------------------------- failure policy -------------------------- *)
RetireNamespaces == {"captcha", "mobile-meta", "getFieldInfos", "internal", "login", "threshold"}

\* (mutation) the catch block retires the session on every failure
CatchBlock_RetireAlways(e, sess, tb) ==
    IF sess = "undefined"
    THEN [session |-> sess, tab |-> tb, thrown |-> e]
    ELSE [session |-> "retired", tab |-> "closed", thrown |-> e]

\* The catch block: what happens to the session and the tab, and what is thrown on.
CatchBlock(e, sess, tb) ==
    IF e.class = "InfoError" /\ e.namespace \in RetireNamespaces
    THEN IF sess = "undefined"
         THEN [session |-> sess, tab |-> tb,
               thrown |-> TypeError("Cannot read property 'retire' of undefined")]
         ELSE [session |-> "retired", tab |-> "closed", thrown |-> e]
    ELSE [session |-> sess, tab |-> tb, thrown |-> e]

(* ------------------------------ the engine ---------------------------- *)
\* (mutation) the seed loop gives its requests the label VIDEO
SeedLabel_Video == LABELS.VIDEO

\* the label the seed loop gives every request it enqueues
SeedLabel == LABELS.POST

Request(label, useMobile, username) ==
    [label |-> label, useMobile |-> useMobile, username |-> username,
     retryCount |-> 0, status |-> "pending"]

Idle == <<"idle">>
\* A pass of the POST branch: not settled yet, or settled on the page it read.
NoResult == [st |-> "pending", value |-> Null, page |-> Null]
Settled(r, pg) ==
    [st |-> IF r.threw THEN "rejected" ELSE "fulfilled",
     value |-> IF r.threw THEN Null ELSE r.value,
     page |-> pg]
Call(op, url, username) == [op |-> op, url |-> url, username |-> username]

\* Everything but the concurrency option, as main leaves it before crawler.run().
InitRun ==
    /\ variant \in Variants
    /\ \E who \in {f \in [1..NumSeeds -> Authors] : f[1] = "alice"} :
          requests = [u \in {PostUrl(i) : i \in 1..NumSeeds} |->
                        Request(SeedLabel, FALSE, who[u[2]])]
    /\ queue = [i \in 1..NumSeeds |-> PostUrl(i)]
    /\ fetches = 0
    /\ state = EmptyObject
    /\ pc = [w \in Workers |-> "idle"]
    /\ cur = [w \in Workers |-> Idle]
    /\ page = [w \in Workers |-> Null]
    /\ stored = [w \in Workers |-> <<>>]
    /\ lock = {}
    /\ written = {}
    /\ session = [w \in Workers |-> "none"]
    /\ tab = [w \in Workers |-> "none"]
    /\ stats = [w \in Workers |-> NoResult]
    /\ content = [w \in Workers |-> NoResult]
    /\ todo = [w \in Workers |-> <<>>]
    /\ videoUrl = [w \in Workers |-> Null]
    /\ err = [w \in Workers |-> NoError]
    /\ thrown = [w \in Workers |-> NoError]
    /\ trace = [w \in Workers |-> <<>>]
    /\ probes = [w \in Workers |-> 0]
    /\ phase = "crawl"
    /\ persisted = <<>>
    /\ dataset = <<>>
    /\ resumes = 0
    /\ seeds = <<>>
    /\ warnings = {}
    /\ seedIx = 1
    /\ input = Null
    /\ mainError = NoError
    /\ arg = Null
    /\ res = Null

\* A run that handles one request at a time: maxConcurrency: 1 in variant 2,
\* MAX_CONCURRENCY=1 in the environment of variant 1.
Init ==
    /\ InitRun
    /\ maxConcurrency = 1

req(w) == requests[cur[w]]
Busy == {w \in Workers : pc[w] # "idle"}

\* The engine takes the next pending request, loads its page in a fresh tab
\* and calls the handler with it and, when the session pool is in use, a
\* session.
Fetch(w) ==
    /\ pc[w] = "idle"
    /\ \A v \in Workers : v < w => pc[v] # "idle"
    /\ Cardinality(Busy) < maxConcurrency
    /\ queue # <<>>
    /\ fetches < MaxFetches
    /\ fetches' = fetches + 1
    /\ cur' = [cur EXCEPT ![w] = Head(queue)]
    /\ queue' = Tail(queue)
    /\ requests' = [requests EXCEPT ![Head(queue)].status = "running"]
    /\ session' = [session EXCEPT ![w] = IF useSessionPool(variant) THEN "active" ELSE "undefined"]
    /\ tab' = [tab EXCEPT ![w] = "open"]
    /\ pc' = [pc EXCEPT ![w] = "blockcheck"]
    /\ \E pg \in BlockPages : page' = [page EXCEPT ![w] = pg]
    /\ UNCHANGED <<seedVars, pureVars, runVars, probes, variant, maxConcurrency, stored, lock, written, state, stats, content, todo, videoUrl, err, thrown, trace>>

\* The branch of the handler a label selects.
Branch(v, label) ==
    CASE label = LABELS.POST -> "extract"
      [] label = LABELS.VIDEO -> IF v = 1 THEN "video" ELSE "cookie"
      [] OTHER -> "done"

\* (mutation) a failed check is reported but not thrown
AfterBlockCheck_FallsThrough(e, v, label) == Branch(v, label)

\* Where the handler goes after the block checks: a failed check throws.
AfterBlockCheck(e, v, label) == IF e # NoError THEN "catch" ELSE Branch(v, label)

\* (mutation) the join does not wait for the content pass
PromiseAll_StatsOnly(s, c) == s

\* Promise.all over the states of the two passes.
PromiseAll(s, c) ==
    IF s = "rejected" \/ c = "rejected" THEN "rejected"
    ELSE IF s = "fulfilled" /\ c = "fulfilled" THEN "fulfilled"
    ELSE "pending"

\* Where the handler goes once the awaited join is in that state.
AfterJoin(j) ==
    CASE j = "rejected" -> "catch"
      [] j = "fulfilled" -> "write"
      [] OTHER -> "extract"

HandleBlockCheck(w) ==
    /\ pc[w] = "blockcheck"
    /\ LET e == BlockCheck(req(w).useMobile, page[w]) IN
          /\ err' = [err EXCEPT ![w] = e]
          /\ pc' = [pc EXCEPT ![w] = AfterBlockCheck(e, variant, req(w).label)]
    /\ page' = [page EXCEPT ![w] = Null]
    /\ UNCHANGED <<seedVars, pureVars, runVars, probes, variant, maxConcurrency, stored, lock, written, requests, queue, fetches, state, cur, session, tab, stats, content,
                   todo, videoUrl, thrown, trace>>

\* Promise.all([getPostInfoFromScript, getPostContent]): the passes settle in
\* either order; the first rejection rejects the join, two fulfilments fulfil it.
StatsPass(w) ==
    /\ pc[w] = "extract"
    /\ stats[w].st = "pending"
    /\ \E sp \in ScriptPages :
          LET r == getPostInfoFromScript(sp) IN
          /\ trace' = [trace EXCEPT ![w] = Append(@, Call("stats", cur[w], req(w).username))]
          /\ stats' = [stats EXCEPT ![w] = Settled(r, Null)]
          /\ err' = [err EXCEPT ![w] = r.error]
          /\ pc' = [pc EXCEPT ![w] = AfterJoin(PromiseAll(Settled(r, Null).st, content[w].st))]
    /\ UNCHANGED <<seedVars, pureVars, runVars, probes, variant, maxConcurrency, page, stored, lock, written, requests, queue, fetches, state, cur, session, tab, content, todo,
                   videoUrl, thrown>>

ContentPass(w) ==
    /\ pc[w] = "extract"
    /\ content[w].st = "pending"
    /\ \E cp \in ContentPages :
          LET r == getPostContent(variant, cp, cur[w]) IN
          /\ trace' = [trace EXCEPT ![w] = Append(@, Call("content", cur[w], req(w).username))]
          /\ content' = [content EXCEPT ![w] = Settled(r, cp)]
          /\ err' = [err EXCEPT ![w] = r.error]
          /\ pc' = [pc EXCEPT ![w] = AfterJoin(PromiseAll(stats[w].st, Settled(r, cp).st))]
    /\ UNCHANGED <<seedVars, pureVars, runVars, probes, variant, maxConcurrency, page, stored, lock, written, requests, queue, fetches, state, cur, session, tab, stats, todo,
                   videoUrl, thrown>>

\* map.write(username, {...content, postStats}), then the follow-ups to
\* enqueue; the store makes the write wait for an append in progress for the
\* same author.
Write(w) ==
    /\ pc[w] = "write"
    /\ Locked(lock, req(w).username) = FALSE
    /\ written' = written \cup {cur[w]}
    /\ LET merged == withStats(content[w].value, stats[w].value) IN
       /\ state' = write(state, req(w).username, merged)
       /\ todo' = [todo EXCEPT ![w] = followUps(variant, merged)]
       /\ pc' = [pc EXCEPT ![w] = IF followUps(variant, merged) = <<>> THEN "done" ELSE "enqueue"]
    /\ trace' = [trace EXCEPT ![w] = Append(@, Call("write", cur[w], req(w).username))]
    /\ UNCHANGED <<seedVars, pureVars, runVars, probes, variant, maxConcurrency, page, stored, lock, requests, queue, fetches, cur, session, tab, stats, content,
                   videoUrl, err, thrown>>

\* requestQueue.addRequest(..., {forefront: true}): a url the queue already
\* knows is not added again.
addRequest(rs, url, r) ==
    IF url \in DOMAIN rs THEN rs
    ELSE [u \in DOMAIN rs \cup {url} |-> IF u = url THEN r ELSE rs[u]]

\* initVideoPage(url, username); the queue's storage may fail the call
InitVideoPage(w) ==
    /\ pc[w] = "enqueue"
    /\ trace' = [trace EXCEPT ![w] = Append(@, Call("enqueue", Head(todo[w]), req(w).username))]
    /\ \/ /\ requests' = addRequest(requests, Head(todo[w]),
                                    Request(LABELS.VIDEO, TRUE, req(w).username))
          /\ queue' = IF Head(todo[w]) \in DOMAIN requests THEN queue
                      ELSE <<Head(todo[w])>> \o queue
          /\ todo' = [todo EXCEPT ![w] = Tail(@)]
          /\ pc' = [pc EXCEPT ![w] = IF Tail(todo[w]) = <<>> THEN "done" ELSE "enqueue"]
          /\ UNCHANGED err
       \/ /\ err' = [err EXCEPT ![w] = PlainError("addRequest failed")]
          /\ pc' = [pc EXCEPT ![w] = "catch"]
          /\ UNCHANGED <<requests, queue, todo>>
    /\ UNCHANGED <<seedVars, pureVars, runVars, probes, variant, maxConcurrency, page, stored, lock, written, fetches, state, cur, session, tab, stats, content, videoUrl, thrown>>

\* part_001:157-172: probe the cookie prompt; a visible prompt is probed
\* again after 250 ms, a hidden or absent one ends the loop.
WaitForCookiePromptHidden(w) ==
    /\ pc[w] = "cookie"
    /\ \E prompt \in {"absent", "hidden", "visible"} :
          IF prompt = "visible"
          THEN /\ probes[w] < MaxProbes
               /\ probes' = [probes EXCEPT ![w] = @ + 1]
               /\ UNCHANGED pc
          ELSE /\ probes' = [probes EXCEPT ![w] = 0]
               /\ pc' = [pc EXCEPT ![w] = "video"]
    /\ UNCHANGED <<seedVars, pureVars, runVars, variant, maxConcurrency, page, stored, lock, written, requests, queue, fetches, state, cur, session, tab, stats, content,
                   todo, videoUrl, err, thrown, trace>>

GetVideoUrl(w) ==
    /\ pc[w] = "video"
    /\ \E vp \in VideoPages :
          LET r == getVideoUrl(variant, vp) IN
          IF r.threw
          THEN /\ err' = [err EXCEPT ![w] = r.error]
               /\ pc' = [pc EXCEPT ![w] = "catch"]
               /\ UNCHANGED videoUrl
          ELSE /\ videoUrl' = [videoUrl EXCEPT ![w] = r.value]
               /\ pc' = [pc EXCEPT ![w] = "append"]
               /\ UNCHANGED err
    /\ trace' = [trace EXCEPT ![w] = Append(@, Call("video", cur[w], req(w).username))]
    /\ UNCHANGED <<seedVars, pureVars, runVars, probes, variant, maxConcurrency, page, stored, lock, written, requests, queue, fetches, state, cur, session, tab, stats, content,
                   todo, thrown>>

\* map.append(username, mergeFn), first part: once no other append for the
\* author is in progress, the store reads the author's record and calls the
\* asynchronous mergeFn with it.
AppendRead(w) ==
    /\ pc[w] = "append"
    /\ Locked(lock, req(w).username) = FALSE
    /\ lock' = lock \cup {req(w).username}
    /\ stored' = [stored EXCEPT ![w] = Get(state, req(w).username)]
    /\ pc' = [pc EXCEPT ![w] = "merge"]
    /\ UNCHANGED <<seedVars, pureVars, runVars, probes, variant, maxConcurrency, page, written, requests, queue, fetches, state, cur,
                   session, tab, stats, content, todo, videoUrl, err, thrown, trace>>

\* map.append(username, mergeFn), second part: mergeFn has returned the new
\* record; the store keeps it for the author and lets the next append in.
Append_(w) ==
    /\ pc[w] = "merge"
    /\ state' = write(state, req(w).username, mergeFn(variant, stored[w], cur[w], videoUrl[w]))
    /\ lock' = lock \ {req(w).username}
    /\ stored' = [stored EXCEPT ![w] = <<>>]
    /\ pc' = [pc EXCEPT ![w] = "done"]
    /\ trace' = [trace EXCEPT ![w] = Append(@, Call("append", cur[w], req(w).username))]
    /\ UNCHANGED <<seedVars, pureVars, runVars, probes, variant, maxConcurrency, page, written, requests, queue, fetches, cur, session, tab, stats, content, todo,
                   videoUrl, err, thrown>>

Catch(w) ==
    /\ pc[w] = "catch"
    /\ LET c == CatchBlock(err[w], session[w], tab[w]) IN
       /\ session' = [session EXCEPT ![w] = c.session]
       /\ tab' = [tab EXCEPT ![w] = c.tab]
       /\ thrown' = [thrown EXCEPT ![w] = c.thrown]
    /\ pc' = [pc EXCEPT ![w] = "failed"]
    /\ UNCHANGED <<seedVars, pureVars, runVars, probes, variant, maxConcurrency, page, stored, lock, written, requests, queue, fetches, state, cur, stats, content, todo,
                   videoUrl, err, trace>>

\* The worker's locals after the invocation is over.
Release(w) ==
    /\ pc' = [pc EXCEPT ![w] = "idle"]
    /\ cur' = [cur EXCEPT ![w] = Idle]
    /\ session' = [session EXCEPT ![w] = "none"]
    /\ tab' = [tab EXCEPT ![w] = "none"]
    /\ stats' = [stats EXCEPT ![w] = NoResult]
    /\ content' = [content EXCEPT ![w] = NoResult]
    /\ todo' = [todo EXCEPT ![w] = <<>>]
    /\ videoUrl' = [videoUrl EXCEPT ![w] = Null]
    /\ err' = [err EXCEPT ![w] = NoError]
    /\ thrown' = [thrown EXCEPT ![w] = NoError]
    /\ trace' = [trace EXCEPT ![w] = <<>>]

\* The handler returned: the engine marks the request handled.
RequestHandled(w) ==
    /\ pc[w] = "done"
    /\ requests' = [requests EXCEPT ![cur[w]].status = "handled"]
    /\ Release(w)
    /\ UNCHANGED <<seedVars, pureVars, runVars, probes, variant, maxConcurrency, page, stored, lock, written, queue, fetches, state>>

\* The handler threw: the engine reclaims the request for another attempt,
\* or gives it up after maxRequestRetries retries (handleFailedRequestFunction).
RequestFailed(w) ==
    /\ pc[w] = "failed"
    /\ IF req(w).retryCount < maxRequestRetries(variant)
       THEN /\ requests' = [requests EXCEPT ![cur[w]].retryCount = @ + 1,
                                            ![cur[w]].status = "pending"]
            /\ queue' = Append(queue, cur[w])
       ELSE /\ requests' = [requests EXCEPT ![cur[w]].status = "failed"]
            /\ UNCHANGED queue
    /\ Release(w)
    /\ UNCHANGED <<seedVars, pureVars, runVars, probes, variant, maxConcurrency, page, stored, lock, written, fetches, state>>

(* --------------------------- the end of the run ----------------------- *)
RECURSIVE entries(_)
\* [...state]: the entries of the store, as [key, record] pairs
entries(st) ==
    IF DOMAIN st = {} THEN <<>>
    ELSE LET k == CHOOSE a \in DOMAIN st : TRUE
         IN  <<<<k, st[k]>>>> \o entries([a \in DOMAIN st \ {k} |-> st[a]])

\* a save that keeps the keys and drops what the records hold
encode_KeysOnly(st) == [i \in 1..Len(entries(st)) |-> <<entries(st)[i][1], EmptyObject>>]

\* persistState: the store as it is saved, a list of its entries
encode(st) == entries(st)

\* statePersistor: the store built from a saved list of entries; of two
\* entries of one key the later one stays
decode(blob) ==
    [k \in {blob[i][1] : i \in 1..Len(blob)} |->
        blob[CHOOSE i \in 1..Len(blob) :
                /\ blob[i][1] = k
                /\ \A j \in 1..Len(blob) : blob[j][1] = k => j <= i][2]]

\* [...state.values()]
values(st) == [i \in 1..Len(entries(st)) |-> entries(st)[i][2]]

\* new Date().toISOString(), taken once before the items are made
Finished == <<"finishedAt">>
Version == <<3>>

\* {...val, '#version': 3, '#finishedAt': finished}
Tagged(val, finished) ==
    [k \in DOMAIN val \cup {"#version", "#finishedAt"} |->
        CASE k = "#version" -> Version
          [] k = "#finishedAt" -> finished
          [] OTHER -> val[k]]

\* (mutation) the filter that main.ts:861 has commented out is applied
items_OnlyWithCategories(st, finished) ==
    LET kept == SelectSeq(values(st), LAMBDA val : "categories" \in DOMAIN val)
    IN  [i \in 1..Len(kept) |-> Tagged(kept[i], finished)]

\* the array handed to Apify.pushData
items(st, finished) == [i \in 1..Len(values(st)) |-> Tagged(values(st)[i], finished)]

\* crawler.run() resolves: the queue is empty and no handler is running
CrawlerRun ==
    /\ phase = "crawl"
    /\ queue = <<>>
    /\ \A w \in Workers : pc[w] = "idle"
    /\ phase' = "persist"
    /\ UNCHANGED <<seedVars, pureVars, persisted, dataset, resumes, probes, variant, maxConcurrency,
                   page, stored, lock, written, requests, queue, fetches, state, pc, cur,
                   session, tab, stats, content, todo, videoUrl, err, thrown, trace>>

\* await persistState()
PersistState ==
    /\ phase = "persist"
    /\ persisted' = <<encode(state)>>
    /\ phase' = "push"
    /\ UNCHANGED <<seedVars, pureVars, dataset, resumes, probes, variant, maxConcurrency,
                   page, stored, lock, written, requests, queue, fetches, state, pc, cur,
                   session, tab, stats, content, todo, videoUrl, err, thrown, trace>>

\* await Apify.pushData(...)
PushData ==
    /\ phase = "push"
    /\ dataset' = Append(dataset, items(state, Finished))
    /\ phase' = "end"
    /\ UNCHANGED <<seedVars, pureVars, persisted, resumes, probes, variant, maxConcurrency,
                   page, stored, lock, written, requests, queue, fetches, state, pc, cur,
                   session, tab, stats, content, todo, videoUrl, err, thrown, trace>>

\* The handler, from the engine taking a request to the engine's verdict.
Handle(w) ==
        \/ Fetch(w)
        \/ HandleBlockCheck(w)
        \/ StatsPass(w)
        \/ ContentPass(w)
        \/ Write(w)
        \/ InitVideoPage(w)
        \/ WaitForCookiePromptHidden(w)
        \/ GetVideoUrl(w)
        \/ AppendRead(w)
        \/ Append_(w)
        \/ Catch(w)
        \/ RequestHandled(w)
        \/ RequestFailed(w)

Next ==
    \/ \E w \in Workers : Handle(w)
    \/ CrawlerRun
    \/ PersistState
    \/ PushData

Spec == Init /\ [][Next]_vars

\* Everything but the variant and the concurrency option, for a run of one
\* start url, a post of alice.
OneSeed ==
    /\ requests = [u \in {PostUrl(1)} |-> Request(SeedLabel, FALSE, "alice")]
    /\ queue = <<PostUrl(1)>>
    /\ fetches = 0
    /\ state = EmptyObject
    /\ pc = [w \in Workers |-> "idle"]
    /\ cur = [w \in Workers |-> Idle]
    /\ page = [w \in Workers |-> Null]
    /\ stored = [w \in Workers |-> <<>>]
    /\ lock = {}
    /\ written = {}
    /\ session = [w \in Workers |-> "none"]
    /\ tab = [w \in Workers |-> "none"]
    /\ stats = [w \in Workers |-> NoResult]
    /\ content = [w \in Workers |-> NoResult]
    /\ todo = [w \in Workers |-> <<>>]
    /\ videoUrl = [w \in Workers |-> Null]
    /\ err = [w \in Workers |-> NoError]
    /\ thrown = [w \in Workers |-> NoError]
    /\ trace = [w \in Workers |-> <<>>]
    /\ probes = [w \in Workers |-> 0]
    /\ phase = "crawl"
    /\ persisted = <<>>
    /\ dataset = <<>>
    /\ resumes = 0
    /\ seeds = <<>>
    /\ warnings = {}
    /\ seedIx = 1
    /\ input = Null
    /\ mainError = NoError
    /\ arg = Null
    /\ res = Null

\* A run of one start url in which handler invocations overlap: variant 1
\* started with MAX_CONCURRENCY=2 in its environment (main.ts:156); variant 2
\* sets maxConcurrency: 1 itself (main.ts:603).
InitConcurrent ==
    /\ variant \in Variants
    /\ maxConcurrency = (IF variant = 1 THEN 2 ELSE 1)
    /\ OneSeed

SpecConcurrent == InitConcurrent /\ [][Next]_vars

(* ----------------------- interruption and resumption ------------------ *)
\* The store is saved during the crawl as well (spec 4.4: checkpointed
\* periodically during long runs).
Checkpoint ==
    /\ phase = "crawl"
    /\ persisted # <<encode(state)>>
    /\ persisted' = <<encode(state)>>
    /\ UNCHANGED <<seedVars, pureVars, phase, dataset, resumes, probes, variant, maxConcurrency,
                   page, stored, lock, written, requests, queue, fetches, state, pc, cur,
                   session, tab, stats, content, todo, videoUrl, err, thrown, trace>>

\* the urls of the requests the workers hold, in worker order
InProgress == SelectSeq([w \in 1..MaxWorkers |-> cur[w]], LAMBDA u : u # Idle)

\* The process is stopped before it has pushed its dataset and started
\* again: main runs from the top with the store statePersistor loads, the
\* durable request queue gives the requests that were being handled out
\* again, and what the handlers held is gone.
Resume ==
    /\ phase \in {"crawl", "persist", "push"}
    /\ resumes < MaxResumes
    /\ resumes' = resumes + 1
    /\ phase' = "crawl"
    /\ state' = IF persisted = <<>> THEN EmptyObject ELSE decode(persisted[1])
    /\ requests' = [u \in DOMAIN requests |->
                      IF requests[u].status = "running"
                      THEN [requests[u] EXCEPT !.status = "pending"]
                      ELSE requests[u]]
    /\ queue' = InProgress \o queue
    /\ pc' = [w \in Workers |-> "idle"]
    /\ cur' = [w \in Workers |-> Idle]
    /\ page' = [w \in Workers |-> Null]
    /\ stored' = [w \in Workers |-> <<>>]
    /\ lock' = {}
    /\ session' = [w \in Workers |-> "none"]
    /\ tab' = [w \in Workers |-> "none"]
    /\ stats' = [w \in Workers |-> NoResult]
    /\ content' = [w \in Workers |-> NoResult]
    /\ todo' = [w \in Workers |-> <<>>]
    /\ videoUrl' = [w \in Workers |-> Null]
    /\ err' = [w \in Workers |-> NoError]
    /\ thrown' = [w \in Workers |-> NoError]
    /\ trace' = [w \in Workers |-> <<>>]
    /\ probes' = [w \in Workers |-> 0]
    /\ UNCHANGED <<seedVars, pureVars, persisted, dataset, variant, maxConcurrency, written,
                   fetches>>

\* A run of the second program (main.ts 446-872) on one start url, one
\* handler at a time as its maxConcurrency: 1 has it, that may be interrupted.
InitResume ==
    /\ variant = 2
    /\ maxConcurrency = 1
    /\ OneSeed

NextResume ==
    \/ Next
    \/ Checkpoint
    \/ Resume

SpecResume == InitResume /\ [][NextResume]_vars

(* ------------------------------ the seed loop ------------------------- *)
\* A start url: the host it names, what its path is of, and whose it is.
SeedHosts == {"www", "m"}
SeedPaths == {"posts", "story", "permalink", "photos", "videos", "other"}
SeedUrl(host, path, who) == <<"seed", host, path, who>>
SeedUrls == {SeedUrl(h, p, a) : h \in SeedHosts, p \in SeedPaths, a \in Authors}

\* (mutation) the classifier does not know the permalink form
getUrlLabel_WithoutPermalink(url) ==
    CASE url[3] \in {"posts", "story"}
            -> [threw |-> FALSE, error |-> NoError, value |-> LABELS.POST]
      [] url[3] = "photos"
            -> [threw |-> FALSE, error |-> NoError, value |-> LABELS.PHOTO]
      [] url[3] = "videos"
            -> [threw |-> FALSE, error |-> NoError, value |-> LABELS.VIDEO]
      [] OTHER
            -> [threw |-> TRUE, error |-> InfoError("url"), value |-> Null]

\* getUrlLabel(url): POST, PHOTO or VIDEO; a url that is none of them is
\* reported by an InfoError.
getUrlLabel(url) ==
    CASE url[3] \in {"posts", "story", "permalink"}
            -> [threw |-> FALSE, error |-> NoError, value |-> LABELS.POST]
      [] url[3] = "photos"
            -> [threw |-> FALSE, error |-> NoError, value |-> LABELS.PHOTO]
      [] url[3] = "videos"
            -> [threw |-> FALSE, error |-> NoError, value |-> LABELS.VIDEO]
      [] OTHER
            -> [threw |-> TRUE, error |-> InfoError("url"), value |-> Null]

\* photoToPost(url): the url of the post a photo url belongs to, null for a
\* url that is not of a photo
photoToPost(url) == IF url[3] = "photos" THEN SeedUrl(url[2], "posts", url[4]) ELSE Null

\* extractUsernameFromUrl(url)
extractUsernameFromUrl(url) == url[4]

\* storyFbToDesktopPermalink(url): the desktop permalink of the post
storyFbToDesktopPermalink(url) == SeedUrl("www", "permalink", url[4])

\* url = photoToPost(url) ?? url
Rewritten(url) == IF photoToPost(url) # Null THEN photoToPost(url) ELSE url

\* (mutation) the catch of the seed loop rethrows whatever it caught
seedCatch_Rethrows(e) == "throw"

\* catch (e) of the seed loop: an InfoError is logged as a warning, anything
\* else is thrown again
seedCatch(e) == IF e.class = "InfoError" THEN "warn" ELSE "throw"

\* One turn of the loop over processedRequests; requestQueue.addRequest
\* resolves or rejects.
SeedStep ==
    /\ phase = "seed"
    /\ seedIx <= Len(seeds)
    /\ LET url == seeds[seedIx]
           urlType == getUrlLabel(url)
           enqueues == ~urlType.threw /\ urlType.value \in {LABELS.POST, LABELS.PHOTO}
       IN  \E added \in (IF enqueues THEN BOOLEAN ELSE {TRUE}) :
             LET e == IF urlType.threw THEN urlType.error
                      ELSE IF ~added THEN PlainError("addRequest failed")
                      ELSE NoError
             IN  IF e = NoError
                 THEN /\ seedIx' = seedIx + 1
                      /\ IF enqueues
                         THEN /\ requests' = addRequest(requests, Rewritten(url),
                                                Request(SeedLabel, FALSE,
                                                        extractUsernameFromUrl(Rewritten(url))))
                              /\ queue' = IF Rewritten(url) \in DOMAIN requests
                                          THEN queue ELSE Append(queue, Rewritten(url))
                         ELSE \* no else branch: the loop goes on to the next start url
                              UNCHANGED <<requests, queue>>
                      /\ UNCHANGED <<warnings, phase, mainError>>
                 ELSE IF seedCatch(e) = "warn"
                 THEN /\ seedIx' = seedIx + 1
                      /\ warnings' = warnings \cup {url}
                      /\ UNCHANGED <<requests, queue, phase, mainError>>
                 ELSE /\ phase' = "aborted"
                      /\ mainError' = e
                      /\ UNCHANGED <<seedIx, warnings, requests, queue>>
    /\ UNCHANGED <<seeds, input, pureVars, persisted, dataset, resumes, probes, variant,
                   maxConcurrency, page, stored, lock, written, fetches, state, pc, cur,
                   session, tab, stats, content, todo, videoUrl, err, thrown, trace>>

\* The loop has gone through processedRequests; the crawler is built next.
SeedsDone ==
    /\ phase = "seed"
    /\ seedIx > Len(seeds)
    /\ phase' = "seeded"
    /\ UNCHANGED <<seedVars, pureVars, persisted, dataset, resumes, probes, variant,
                   maxConcurrency, page, stored, lock, written, requests, queue, fetches,
                   state, pc, cur, session, tab, stats, content, todo, videoUrl, err,
                   thrown, trace>>

RECURSIVE SeqsUpTo(_, _)
\* the sequences of at most n elements of S
SeqsUpTo(S, n) ==
    IF n = 0 THEN {<<>>}
    ELSE LET shorter == SeqsUpTo(S, n - 1)
         IN  shorter \cup {Append(q, x) : q \in {r \in shorter : Len(r) = n - 1}, x \in S}

\* languages.json as require() gives it: an ordinary object with its own
\* keys, and through its prototype those of Object.prototype
LANGUAGES_json == {"en-US"}
ObjectPrototype == {"constructor"}

\* key in obj
In(key, own) == key \in own \cup ObjectPrototype

Languages == {"en-US", "xx-XX", "constructor"}

\* What Apify.getInput() can return: null, a value that is no object, or an
\* object; startUrls and language as they are after the defaults ([] and
\* 'en-US') of the destructuring.
Inputs ==
    {[kind |-> k, startUrls |-> [isArray |-> TRUE, urls |-> <<>>], language |-> "en-US"] :
        k \in {"null", "string"}}
    \cup {[kind |-> "object", startUrls |-> [isArray |-> FALSE, urls |-> <<>>], language |-> l] :
            l \in Languages}
    \cup {[kind |-> "object", startUrls |-> [isArray |-> TRUE, urls |-> us], language |-> l] :
            us \in SeqsUpTo(SeedUrls, NumSeeds), l \in Languages}

\* the checks of main.ts:479-522 in their order: the error thrown, or none
validate(inp) ==
    IF inp.kind # "object" THEN PlainError("Missing input")
    ELSE IF ~inp.startUrls.isArray \/ Len(inp.startUrls.urls) = 0
    THEN PlainError("You must provide the startUrls input")
    ELSE IF ~In(inp.language, LANGUAGES_json)
    THEN PlainError("Selected language isn't supported")
    ELSE NoError

\* Apify.main from getInput() to the language check
Validate ==
    /\ phase = "input"
    /\ IF validate(input) = NoError
       THEN phase' = "load" /\ UNCHANGED mainError
       ELSE phase' = "aborted" /\ mainError' = validate(input)
    /\ UNCHANGED <<seeds, warnings, seedIx, input, pureVars, persisted, dataset, resumes,
                   probes, variant, maxConcurrency, page, stored, lock, written, requests,
                   queue, fetches, state, pc, cur, session, tab, stats, content, todo,
                   videoUrl, err, thrown, trace>>

\* The request list is read into processedRequests; it gives the start urls
\* or nothing.
LoadStartUrls ==
    /\ phase = "load"
    /\ \E loaded \in {input.startUrls.urls, <<>>} :
          IF Len(input.startUrls.urls) # 0 /\ Len(loaded) = 0
          THEN /\ phase' = "aborted"
               /\ mainError' = PlainError("No requests were loaded from startUrls")
               /\ UNCHANGED seeds
          ELSE /\ seeds' = loaded
               /\ phase' = "seed"
               /\ UNCHANGED mainError
    /\ UNCHANGED <<warnings, seedIx, input, pureVars, persisted, dataset, resumes,
                   probes, variant, maxConcurrency, page, stored, lock, written, requests,
                   queue, fetches, state, pc, cur, session, tab, stats, content, todo,
                   videoUrl, err, thrown, trace>>

\* Nothing has been fetched, stored or pushed, and no handler runs.
Unstarted ==
    /\ fetches = 0
    /\ state = EmptyObject
    /\ pc = [w \in Workers |-> "idle"]
    /\ cur = [w \in Workers |-> Idle]
    /\ page = [w \in Workers |-> Null]
    /\ stored = [w \in Workers |-> <<>>]
    /\ lock = {}
    /\ written = {}
    /\ session = [w \in Workers |-> "none"]
    /\ tab = [w \in Workers |-> "none"]
    /\ stats = [w \in Workers |-> NoResult]
    /\ content = [w \in Workers |-> NoResult]
    /\ todo = [w \in Workers |-> <<>>]
    /\ videoUrl = [w \in Workers |-> Null]
    /\ err = [w \in Workers |-> NoError]
    /\ thrown = [w \in Workers |-> NoError]
    /\ trace = [w \in Workers |-> <<>>]
    /\ probes = [w \in Workers |-> 0]
    /\ persisted = <<>>
    /\ dataset = <<>>
    /\ resumes = 0

\* Apify.main of variant 2 as it starts, with whatever input it is given.
InitSeeds ==
    /\ variant = 2
    /\ maxConcurrency = 1
    /\ input \in Inputs
    /\ mainError = NoError
    /\ seeds = <<>>
    /\ seedIx = 1
    /\ warnings = {}
    /\ phase = "input"
    /\ requests = EmptyObject
    /\ queue = <<>>
    /\ arg = Null
    /\ res = Null
    /\ Unstarted

NextSeeds ==
    \/ Validate
    \/ LoadStartUrls
    \/ SeedStep
    \/ SeedsDone

SpecSeeds == InitSeeds /\ [][NextSeeds]_vars

(* ------------------- the extraction functions on their own ------------ *)
\* The href of an element matched by [href*="l.facebook.com/l.php?u="]: how
\* the u parameter is written and the target it stands for ("" when the
\* parameter is empty).
Hrefs == {<<"href", "plain", "a">>, <<"href", "percent", "a">>,
          <<"href", "plain", "b">>, <<"href", "plain", "">>}

\* new URL(href).searchParams.get('u'): the parameter, percent-decoded
searchParamsGet(href) == <<href[3]>>

\* What the reduce reads of a link element: an attribute or inner text is
\* null when the element or attribute is missing, <<"">> when it is empty.
Shown ==
    {[thumbUrl |-> <<"">>, domain |-> <<"d">>, title |-> <<"x">>, text |-> Null],
     [thumbUrl |-> <<"t1">>, domain |-> Null, title |-> <<"">>, text |-> <<"y">>],
     [thumbUrl |-> <<"t2">>, domain |-> <<"d">>, title |-> <<"x">>, text |-> <<"y">>],
     [thumbUrl |-> <<"">>, domain |-> Null, title |-> <<"">>, text |-> Null]}

LinkElements ==
    {[href |-> h, thumbUrl |-> sh.thumbUrl, domain |-> sh.domain, title |-> sh.title,
      text |-> sh.text] : h \in Hrefs, sh \in Shown}

\* x || null
orNull(x) == IF x = Null \/ x = <<"">> THEN Null ELSE x

\* ret.find(l => l.url === url): the position of the first such entry, 0 for none
findIndex(ret, url) ==
    IF \E i \in 1..Len(ret) : ret[i].url = url
    THEN CHOOSE i \in 1..Len(ret) :
            /\ ret[i].url = url
            /\ \A j \in 1..(i - 1) : ret[j].url # url
    ELSE 0

\* (mutation) an entry found again takes every field of the link seen last
reduceLink_Overwrites(ret, link) ==
    LET url == searchParamsGet(link.href)
        seen == [url |-> url, thumbUrl |-> orNull(link.thumbUrl), domain |-> orNull(link.domain),
                 title |-> orNull(link.title), text |-> orNull(link.text)]
        at == findIndex(ret, url)
    IN  IF url = <<"">> THEN ret
        ELSE IF at # 0 THEN [ret EXCEPT ![at] = seen]
        ELSE Append(ret, seen)

\* the callback of links.reduce (part_001:95-130)
reduceLink(ret, link) ==
    LET url == searchParamsGet(link.href)
        seen == [url |-> url, thumbUrl |-> orNull(link.thumbUrl), domain |-> orNull(link.domain),
                 title |-> orNull(link.title), text |-> orNull(link.text)]
        at == findIndex(ret, url)
    IN  IF url = <<"">> THEN ret
        ELSE IF at # 0
        THEN [ret EXCEPT ![at] =
                [f \in DOMAIN seen |-> IF f # "url" /\ ret[at][f] = Null THEN seen[f] ELSE ret[at][f]]]
        ELSE Append(ret, seen)

DigitStrings == {<<0>>, <<9>>, <<1, 0>>, <<0, 7>>}

\* What a function is called with: the link elements of a post (and how
\* many of them the reduce has gone through), the matches of a counting
\* pattern, a url (and the url it is the canonical form of), the scripts of
\* a post page, or a request's useMobile and the page loaded for it.
PureInputs ==
    {<<"links", ls, 0>> : ls \in SeqsUpTo(LinkElements, MaxLinks)}
    \cup {<<"matches", ms>> : ms \in SeqsUpTo(DigitStrings, MaxMatches)}
    \cup {<<"url", u, u>> : u \in SeedUrls}
    \cup {<<"script", sp>> : sp \in ScriptPages}
    \cup {<<"page", m, pg>> : m \in BOOLEAN, pg \in BlockPages}

\* One turn of links.reduce: the next link element is folded into ret.
PostLinks ==
    /\ phase = "call"
    /\ arg[1] = "links"
    /\ arg[3] < Len(arg[2])
    /\ arg' = <<"links", arg[2], arg[3] + 1>>
    /\ res' = <<"links", reduceLink(IF res[1] = "links" THEN res[2] ELSE <<>>,
                                    arg[2][arg[3] + 1])>>
    /\ UNCHANGED <<seedVars, runVars, probes, variant, maxConcurrency, page, stored, lock,
                   written, requests, queue, fetches, state, pc, cur, session, tab, stats,
                   content, todo, videoUrl, err, thrown, trace>>

\* maxFromMatches(matches)
MaxFromMatches ==
    /\ phase = "call"
    /\ arg[1] = "matches"
    /\ res = Null
    /\ res' = <<"max", maxFromMatches(arg[2])>>
    /\ UNCHANGED <<arg, seedVars, runVars, probes, variant, maxConcurrency, page, stored, lock,
                   written, requests, queue, fetches, state, pc, cur, session, tab, stats,
                   content, todo, videoUrl, err, thrown, trace>>

\* the block checks at the head of handlePageFunction (main.ts:717-769)
BlockChecks ==
    /\ phase = "call"
    /\ arg[1] = "page"
    /\ res = Null
    /\ res' = <<"check", BlockCheck(arg[2], arg[3])>>
    /\ UNCHANGED <<arg, seedVars, runVars, probes, variant, maxConcurrency, page, stored, lock,
                   written, requests, queue, fetches, state, pc, cur, session, tab, stats,
                   content, todo, videoUrl, err, thrown, trace>>

\* getPostInfoFromScript(page, url)
GetPostInfoFromScript ==
    /\ phase = "call"
    /\ arg[1] = "script"
    /\ res = Null
    /\ res' = <<"stats", getPostInfoFromScript(arg[2])>>
    /\ UNCHANGED <<arg, seedVars, runVars, probes, variant, maxConcurrency, page, stored, lock,
                   written, requests, queue, fetches, state, pc, cur, session, tab, stats,
                   content, todo, videoUrl, err, thrown, trace>>

\* what the seed loop takes from the classifier for a url: its label, and
\* for a POST or PHOTO url the username and canonical of its request
classify(url) ==
    LET urlType == getUrlLabel(url) IN
    IF urlType.threw THEN <<"classified", <<"InfoError">>, Null, Null>>
    ELSE IF urlType.value \in {LABELS.POST, LABELS.PHOTO}
    THEN <<"classified", <<urlType.value>>, <<extractUsernameFromUrl(Rewritten(url))>>,
           storyFbToDesktopPermalink(Rewritten(url))>>
    ELSE <<"classified", <<urlType.value>>, Null, Null>>

\* A url is classified; the canonical form it was given is classified next.
Classify ==
    /\ phase = "call"
    /\ arg[1] = "url"
    /\ \/ /\ res = Null
          /\ res' = classify(arg[2])
          /\ UNCHANGED arg
       \/ /\ res # Null
          /\ res[4] # Null
          /\ arg[2] # res[4]
          /\ arg' = <<"url", res[4], arg[2]>>
          /\ res' = classify(res[4])
    /\ UNCHANGED <<seedVars, runVars, probes, variant, maxConcurrency, page, stored, lock,
                   written, requests, queue, fetches, state, pc, cur, session, tab, stats,
                   content, todo, videoUrl, err, thrown, trace>>

InitPure ==
    /\ variant = 2
    /\ maxConcurrency = 1
    /\ seeds = <<>>
    /\ seedIx = 1
    /\ warnings = {}
    /\ input = Null
    /\ mainError = NoError
    /\ phase = "call"
    /\ requests = EmptyObject
    /\ queue = <<>>
    /\ arg \in PureInputs
    /\ res = Null
    /\ Unstarted

NextPure ==
    \/ PostLinks
    \/ MaxFromMatches
    \/ GetPostInfoFromScript
    \/ BlockChecks
    \/ Classify

SpecPure == InitPure /\ [][NextPure]_vars


(* ====================================================================== *)
(* Properties                                                              *)
(* ====================================================================== *)
\* The calls of one kind an invocation has made so far.
CallsOf(w, op) == SelectSeq(trace[w], LAMBDA c : c.op = op)
Made(w, op) == CallsOf(w, op) # <<>>
Ended(w) == pc[w] \in {"done", "failed"}
Label(w) == req(w).label
BlockNamespaces == {"login", "captcha", "mobile-meta", "internal"}
BlockFailures == {InfoError(ns) : ns \in BlockNamespaces}

\* C1: whenever the handler has caught a classified failure whose namespace is
\* captcha, mobile-meta, internal, login or threshold, it has retired the
\* session and closed the tab when it throws on, and what it throws on is the
\* failure it caught -- in both variants, the one without a session pool too.
C1_RetiresAndRethrowsSame ==
    \A w \in Workers :
        ( /\ pc[w] = "failed"
          /\ err[w].class = "InfoError"
          /\ err[w].namespace \in {"captcha", "mobile-meta", "internal", "login", "threshold"} )
        => /\ session[w] = "retired"
           /\ tab[w] = "closed"
           /\ thrown[w] = err[w]

\* C2: a failure that is no InfoError, or an InfoError of namespace
\* missing-content, leaves the session unretired and the tab open, and the
\* handler throws on exactly the failure it caught.
C2_UnclassifiedNotRetired ==
    \A w \in Workers :
        ( /\ pc[w] = "failed"
          /\ \/ err[w].class # "InfoError"
             \/ err[w].namespace = "missing-content" )
        => /\ session[w] # "retired"
           /\ tab[w] = "open"
           /\ thrown[w] = err[w]

\* an extraction pass failed in variant 1 (session pool in use) and the
\* failure went on to the engine with the session still active
C2_Witness ==
    \E w \in Workers :
        /\ pc[w] = "failed"
        /\ variant = 1
        /\ err[w].class \in {"Error", "TimeoutError", "TypeError"}
        /\ session[w] = "active"
        /\ thrown[w] = err[w]
        /\ Made(w, "content")

\* C3: once a block check has failed, the invocation is on its failure path
\* and has made no call at all (no extraction pass, no video subflow, no
\* write, no append, no enqueue); and no step taken while it is there changes
\* the store or adds a request to the queue.
C3_BlockedGoesStraightToFailed ==
    /\ [](\A w \in Workers :
            err[w] \in BlockFailures => pc[w] \in {"catch", "failed"} /\ trace[w] = <<>>)
    /\ [][\A w \in Workers :
            err[w] \in BlockFailures => state' = state /\ DOMAIN requests' = DOMAIN requests]_vars

\* a mobile VIDEO request met a captcha and failed, with records in the store
C3_Witness ==
    \E w \in Workers :
        /\ pc[w] = "failed"
        /\ err[w] = InfoError("captcha")
        /\ Label(w) = LABELS.VIDEO
        /\ trace[w] = <<>>
        /\ DOMAIN state # {}

\* C4: a POST request whose post container has no .userContent fails with a
\* classified failure of namespace missing-content, which is the failure the
\* handler's catch block receives.
C4_MissingContentIsClassified ==
    \A w \in Workers :
        ( /\ pc[w] \in {"catch", "failed"}
          /\ content[w].st = "rejected"
          /\ content[w].page.container
          /\ ~content[w].page.userContent )
        => err[w] = InfoError("missing-content")

\* C5: when the content pass has failed, the invocation makes no write and
\* enqueues no follow-up, whatever the stats pass did and whichever pass
\* settled first; and the write is made only with both passes fulfilled.
C5_NoWriteWithoutContent ==
    \A w \in Workers :
        /\ content[w].st = "rejected"
              => pc[w] \in {"catch", "failed"} /\ ~Made(w, "write") /\ ~Made(w, "enqueue")
        /\ (pc[w] = "write" \/ Made(w, "write"))
              => /\ stats[w].st = "fulfilled"
                 /\ content[w].st = "fulfilled"
                 /\ Made(w, "stats")
                 /\ Made(w, "content")

\* the stats pass was fulfilled first, the content pass then failed, and the
\* request failed without a write
C5_Witness ==
    \E w \in Workers :
        /\ pc[w] = "failed"
        /\ stats[w].st = "fulfilled"
        /\ content[w].st = "rejected"
        /\ Len(trace[w]) = 2
        /\ trace[w][1].op = "stats"
        /\ ~Made(w, "write")

\* C6: a failure of the stats pass does not fail the POST request: an
\* invocation whose stats pass was rejected fails only if its content pass
\* was rejected as well.
C6_StatsFailureIsolated ==
    \A w \in Workers :
        (pc[w] \in {"catch", "failed"} /\ stats[w].st = "rejected")
        => content[w].st = "rejected"

\* the record has a pending video url
HasPendingVideoUrl(record) ==
    "videoPostUrl" \in DOMAIN record /\ record.videoPostUrl # Null

\* C7 as claimed: a POST invocation that succeeded has made exactly one
\* enqueue call, with its own username, when the record it extracted has a
\* videoPostUrl, and none when it has not.
C7_OneFollowUpPerPendingVideo ==
    \A w \in Workers :
        (pc[w] = "done" /\ Label(w) = LABELS.POST)
        => LET enq == CallsOf(w, "enqueue") IN
           IF HasPendingVideoUrl(content[w].value)
           THEN Len(enq) = 1 /\ enq[1].username = req(w).username
           ELSE enq = <<>>

\* C7 as amended: in variant 2 the above, the call being for the record's
\* videoPostUrl; in variant 1 one enqueue call for each post image whose link
\* contains '/videos/', in order, on the mobile host, each with the POST
\* request's username.
C7_FollowUpsOfVariant ==
    \A w \in Workers :
        (pc[w] = "done" /\ Label(w) = LABELS.POST)
        => LET enq == CallsOf(w, "enqueue")
               c == content[w].value
               vids == SelectSeq(c.postImages, LAMBDA l : l[1] = "videos")
           IN  /\ \A i \in 1..Len(enq) : enq[i].username = req(w).username
               /\ variant = 2 =>
                    IF HasPendingVideoUrl(c)
                    THEN Len(enq) = 1 /\ enq[1].url = c.videoPostUrl
                    ELSE enq = <<>>
               /\ variant = 1 =>
                    /\ Len(enq) = Len(vids)
                    /\ \A i \in 1..Len(enq) :
                          enq[i].url = <<"videos", "m", vids[i][3], vids[i][4]>>

\* a POST of variant 2 found a video link in the header and succeeded with
\* one follow-up enqueued
C7_Witness ==
    \E w \in Workers :
        /\ pc[w] = "done"
        /\ Label(w) = LABELS.POST
        /\ variant = 2
        /\ HasPendingVideoUrl(content[w].value)
        /\ Len(CallsOf(w, "enqueue")) = 1
        /\ \E u \in DOMAIN requests :
              requests[u].label = LABELS.VIDEO /\ requests[u].username = req(w).username

\* C8: a VIDEO invocation that got past the block checks and ran the
\* acquisition subflow has made an append for its username when it ends.
C8_VideoAlwaysAppends ==
    \A w \in Workers :
        (Ended(w) /\ Label(w) = LABELS.VIDEO /\ Made(w, "video"))
        => /\ pc[w] = "done"
           /\ Made(w, "append")
           /\ CallsOf(w, "append")[1].username = req(w).username

\* C9: the acquisition subflow never raises: the handler is never in its
\* catch block with the subflow as the last call it made.
C9_GetVideoUrlNeverRaises ==
    \A w \in Workers :
        pc[w] = "catch" => ~(trace[w] # <<>> /\ trace[w][Len(trace[w])].op = "video")

\* C10 (variant 2, main.ts:803-816): the append of a VIDEO invocation leaves
\* for its username a record without videoPostUrl, whose postVideos is the
\* one VideoRef of the request's url and the subflow's result, and whose
\* other fields are those of the record stored before; no other username's
\* record changes.
C10_AppendClearsPendingKeepsRest ==
    [][\A w \in Workers :
         (variant = 2 /\ pc[w] = "merge" /\ pc'[w] = "done")
         => LET u == req(w).username
                old == IF u \in DOMAIN state THEN state[u] ELSE EmptyObject
                rest == DOMAIN old \ {"videoPostUrl", "postVideos"}
            IN  /\ u \in DOMAIN state'
                /\ DOMAIN state'[u] = rest \cup {"postVideos"}
                /\ state'[u].postVideos = <<[postUrl |-> cur[w], videoUrl |-> videoUrl[w]]>>
                /\ \A k \in rest : state'[u][k] = old[k]
                /\ \A a \in DOMAIN state \ {u} : a \in DOMAIN state' /\ state'[a] = state[a]
                /\ DOMAIN state' = DOMAIN state \cup {u}]_vars

\* a VIDEO request of variant 2 found a video element without a source: the
\* record keeps the post's text and stats, has lost videoPostUrl and holds a
\* VideoRef with a null videoUrl
C10_Witness ==
    \E w \in Workers :
        /\ variant = 2
        /\ pc[w] = "done"
        /\ Label(w) = LABELS.VIDEO
        /\ req(w).username \in DOMAIN state
        /\ LET r == state[req(w).username] IN
              /\ {"postText", "postStats", "postUrl", "postVideos"} \subseteq DOMAIN r
              /\ "videoPostUrl" \notin DOMAIN r
              /\ r.postVideos = <<[postUrl |-> cur[w], videoUrl |-> Null]>>

(* ----------------------- the store under concurrency ------------------ *)
\* the author whose record worker w's request is about
Author(w) == req(w).username

\* C11: appends for one author are serialized.  No two workers are between
\* the read and the store of an append for the same author; while a worker is
\* there, no step of another worker (an append or a write) changes that
\* author's record; and its store leaves the store as the atomic append
\* applied to the store of that moment would, so the record it read is the
\* record it replaces and no update made in between is lost.
C11_AppendsAreSerialized ==
    /\ [](\A w1, w2 \in Workers :
            (w1 # w2 /\ pc[w1] = "merge" /\ pc[w2] = "merge") => Author(w1) # Author(w2))
    /\ [][\A w \in Workers :
            pc[w] = "merge" =>
                IF pc'[w] = "done"
                THEN state' = append(state, Author(w), variant, cur[w], videoUrl[w])
                ELSE Get(state', Author(w)) = Get(state, Author(w))]_vars

\* one worker is between the read and the store of an append for an author
\* while another worker's append for the same author waits
C11_Witness ==
    \E w1, w2 \in Workers :
        /\ pc[w1] = "merge"
        /\ pc[w2] = "append"
        /\ Author(w1) = Author(w2)
        /\ cur[w1] # cur[w2]

\* the VideoRef the append of worker w's VIDEO request is made with
VideoRefOf(w) ==
    IF variant = 1 THEN [videoUrl |-> videoUrl[w]]
    ELSE [postUrl |-> cur[w], videoUrl |-> videoUrl[w]]

\* C12: whatever appends overlap, a stored record never holds more than one
\* VideoRef (so never two for one sub-page), and the store step of an append
\* leaves the author's record with exactly the VideoRef of that append: the
\* final record holds the one of the append applied last.
C12_OneVideoRefOfLastAppend ==
    /\ [](\A u \in DOMAIN state :
            "postVideos" \in DOMAIN state[u] => Len(state[u].postVideos) = 1)
    /\ [][\A w \in Workers :
            (pc[w] = "merge" /\ pc'[w] = "done")
            => state'[Author(w)].postVideos = <<VideoRefOf(w)>>]_vars

\* two overlapping VIDEO invocations for two sub-pages of one author have
\* both appended, with different results; the record holds one VideoRef
C12_Witness ==
    \E w1, w2 \in Workers :
        /\ pc[w1] = "done" /\ pc[w2] = "done"
        /\ Label(w1) = LABELS.VIDEO /\ Label(w2) = LABELS.VIDEO
        /\ Made(w1, "append") /\ Made(w2, "append")
        /\ Author(w1) = Author(w2)
        /\ cur[w1] # cur[w2]
        /\ videoUrl[w1] # videoUrl[w2]
        /\ Len(state[Author(w1)].postVideos) = 1

\* the merge of worker w's VIDEO request, applied to what the store read
MergeOf(w, value) == mergeFn(variant, value, cur[w], videoUrl[w])

\* C13: the merges of two appends waiting for the same author give the same
\* record in either order (commutative), and a merge applied to its own
\* result changes nothing (idempotent).
C13_MergeCommutesAndIsIdempotent ==
    \A w1, w2 \in Workers :
        (w1 # w2 /\ pc[w1] = "append" /\ pc[w2] = "append" /\ Author(w1) = Author(w2))
        => LET r == Get(state, Author(w1)) IN
           /\ MergeOf(w2, <<MergeOf(w1, r)>>) = MergeOf(w1, <<MergeOf(w2, r)>>)
           /\ MergeOf(w1, <<MergeOf(w1, r)>>) = MergeOf(w1, r)

(* --------------------------- writes and retries ----------------------- *)
\* C14: the store holds one record per author, and a record once created is
\* only merged into: no step removes an author's record or drops a field the
\* record holds (a VideoRef appended earlier, say), the pending videoPostUrl
\* that an append clears excepted.
C14_RecordsOnlyMergedInto ==
    [][\A u \in DOMAIN state :
         /\ u \in DOMAIN state'
         /\ (DOMAIN state[u] \ {"videoPostUrl"}) \subseteq DOMAIN state'[u]]_vars

\* C15: map.write is called at most once for a POST request over all its
\* attempts: an attempt that calls it belongs to a request none of whose
\* earlier attempts has.
C15_WriteAtMostOncePerRequest ==
    [][\A w \in Workers :
         (pc[w] = "write" /\ pc'[w] # "write") => cur[w] \notin written]_vars

\* C16: a failed enqueue of the VIDEO follow-up does not fail the POST
\* request: an invocation that has written its record does not end up in
\* the catch block.
C16_EnqueueFailureDoesNotFailPost ==
    \A w \in Workers :
        (pc[w] \in {"catch", "failed"} /\ Label(w) = LABELS.POST) => ~Made(w, "write")

(* ------------------------- the block checks, one by one --------------- *)
\* worker w's handler runs its block checks in this step
ChecksPage(w) == pc[w] = "blockcheck" /\ pc'[w] # "blockcheck"
\* the block checks raised InfoError(ns) in this step
Raises(w, ns) == pc'[w] = "catch" /\ err'[w] = InfoError(ns)

\* C17: a request whose page url contains '?next=' fails with the classified
\* failure of namespace login, whatever its profile, its label and the rest
\* of the page.
C17_LoginRedirectIsLogin ==
    [][\A w \in Workers : (ChecksPage(w) /\ page[w].next) => Raises(w, "login")]_vars

\* a mobile VIDEO request was redirected to the login page and is in the
\* catch block with the login failure
C17_Witness ==
    \E w \in Workers :
        /\ pc[w] = "catch"
        /\ req(w).useMobile
        /\ Label(w) = LABELS.VIDEO
        /\ err[w] = InfoError("login")
        /\ trace[w] = <<>>

\* C18: for a mobile request that is no login redirect: with the captcha
\* marker the failure is captcha; without it, and with one of the two layout
\* markers not appearing, the failure is mobile-meta; without captcha and
\* with both markers the checks go on to the title check and raise neither.
C18_MobileCaptchaThenLayout ==
    [][\A w \in Workers :
         (ChecksPage(w) /\ req(w).useMobile /\ ~page[w].next)
         => IF page[w].mobileCaptcha THEN Raises(w, "captcha")
            ELSE IF ~page[w].mobileMeta \/ ~page[w].mobileBodyClass THEN Raises(w, "mobile-meta")
            ELSE err'[w] \notin {InfoError("captcha"), InfoError("mobile-meta"), InfoError("login")}]_vars

\* a mobile request showed no captcha and only one of the two layout markers
C18_Witness ==
    \E w \in Workers :
        /\ pc[w] = "catch"
        /\ req(w).useMobile
        /\ err[w] = InfoError("mobile-meta")

\* C19: a desktop request that failed on the captcha marker has had its
\* session retired when it leaves the handler, and a desktop request never
\* fails with mobile-meta.
C19_DesktopCaptchaRetires ==
    \A w \in Workers :
        (pc[w] = "failed" /\ ~req(w).useMobile)
        => /\ err[w] # InfoError("mobile-meta")
           /\ err[w] = InfoError("captcha") => session[w] = "retired"

\* the page passed the login check and the captcha and layout checks of the
\* request's profile
PassedToTitle(useMobile, pg) ==
    /\ ~pg.next
    /\ useMobile => (~pg.mobileCaptcha /\ pg.mobileMeta /\ pg.mobileBodyClass)
    /\ ~useMobile => ~pg.desktopCaptcha

\* C20: a request that passed the login, captcha and layout checks fails with
\* namespace internal when its page's title is 'Error', and passes the block
\* checks, going on to the branch of its label, when the title is another one.
C20_ErrorTitleIsInternal ==
    [][\A w \in Workers :
         (ChecksPage(w) /\ PassedToTitle(req(w).useMobile, page[w]))
         => /\ page[w].title = "Error" => Raises(w, "internal")
            /\ page[w].title = "Other"
                  => err'[w] = NoError /\ pc'[w] = Branch(variant, Label(w))]_vars

\* a mobile VIDEO request with both layout markers got the 'Error' title
C20_Witness ==
    \E w \in Workers :
        /\ pc[w] = "catch"
        /\ req(w).useMobile
        /\ err[w] = InfoError("internal")

(* ------------------------------ request lifecycle --------------------- *)
\* the retry ceiling the crawler options of the running variant set
RetryCeiling == IF variant = 1 THEN MaxRequestRetries1 ELSE MaxRequestRetries2
InQueue(u) == \E i \in 1..Len(queue) : queue[i] = u
BeingHandled(u) == \E w \in Workers : cur[w] = u

\* C21: a request is re-queued at most maxRequestRetries times; a request
\* that succeeded or was given up is neither in the queue nor with a worker
\* and stays as it is for the rest of the run; a request is given up (the
\* step that calls handleFailedRequestFunction) only by a failed attempt made
\* with the ceiling reached, so it is reported once.
C21_RetriesBoundedThenFailedForGood ==
    /\ [](\A u \in DOMAIN requests :
            /\ requests[u].retryCount <= RetryCeiling
            /\ requests[u].status \in {"handled", "failed"}
                  => ~InQueue(u) /\ ~BeingHandled(u)
            /\ requests[u].status = "failed" => requests[u].retryCount = RetryCeiling
            /\ InQueue(u) => requests[u].status = "pending")
    /\ [][\A u \in DOMAIN requests :
            /\ requests[u].status \in {"handled", "failed"} => requests'[u] = requests[u]
            /\ (requests[u].status # "failed" /\ requests'[u].status = "failed")
                  => /\ requests[u].status = "running"
                     /\ requests[u].retryCount = RetryCeiling
                     /\ \E w \in Workers : cur[w] = u /\ pc[w] = "failed"]_vars

\* a request of variant 2 has failed on its fourth attempt and was given up
C21_Witness ==
    \E u \in DOMAIN requests :
        /\ variant = 2
        /\ requests[u].status = "failed"
        /\ requests[u].retryCount = MaxRequestRetries2
        /\ ~InQueue(u)

(* ------------------------------ the cookie loop ----------------------- *)
\* C22: the cookie loop gives up at a small ceiling of re-probes: however
\* many re-probes the model follows (MaxProbes), the loop has left for the
\* poster step before making that many.
C22_CookieLoopGivesUp ==
    \A w \in Workers : pc[w] = "cookie" => probes[w] < MaxProbes

(* ------------------------------ the dataset --------------------------- *)
\* the tagged items are those of the store's records, one for each
SameItems(its, st) ==
    /\ Len(its) = Cardinality(DOMAIN st)
    /\ \A u \in DOMAIN st :
          \E i \in 1..Len(its) : its[i] = Tagged(st[u], its[i]["#finishedAt"])
    /\ \A i \in 1..Len(its) :
          /\ \E u \in DOMAIN st : its[i] = Tagged(st[u], its[i]["#finishedAt"])
          /\ its[i]["#version"] = <<3>>
          /\ its[i]["#finishedAt"] = its[1]["#finishedAt"]

\* C23: nothing is pushed before the run's end and no more than one array is
\* pushed; when the run has ended exactly one has been, with the queue empty,
\* no handler running and the store saved as it is; the array holds one item
\* for each record of the store, the record with the version tag and one and
\* the same completion time.
C23_DatasetPushedOnceAtEnd ==
    /\ Len(dataset) <= 1
    /\ phase = "end" <=> Len(dataset) = 1
    /\ phase = "end"
          => /\ queue = <<>>
             /\ \A w \in Workers : pc[w] = "idle"
             /\ persisted # <<>>
             /\ decode(persisted[1]) = state
             /\ SameItems(dataset[1], state)

\* a run of two authors has ended with two items in its dataset
C23_Witness ==
    /\ phase = "end"
    /\ Cardinality(DOMAIN state) = 2
    /\ Len(dataset) = 1
    /\ Len(dataset[1]) = 2
    /\ \E u \in DOMAIN state : "postVideos" \in DOMAIN state[u]

(* ------------------------- persisting and resuming -------------------- *)
\* the store that the saved list of entries stands for
Saved == IF persisted = <<>> THEN EmptyObject ELSE decode(persisted[1])

Processed == {seeds[i] : i \in 1..(seedIx - 1)}

\* C25: every start url the loop has gone through that getUrlLabel gives
\* neither POST nor PHOTO has a warning logged for it and no request in the
\* queue, and every other one has its request in the queue.
C25_UnrecognizedSeedsAreReported ==
    \A url \in Processed :
        IF ~getUrlLabel(url).threw /\ getUrlLabel(url).value \in {LABELS.POST, LABELS.PHOTO}
        THEN Rewritten(url) \in DOMAIN requests
        ELSE url \in warnings /\ url \notin DOMAIN requests

(* ------------------------------ link references ----------------------- *)
LinkFields == {"thumbUrl", "domain", "title", "text"}

\* the entries links.reduce has built so far
Ret == IF res[1] = "links" THEN res[2] ELSE <<>>

\* C26: the entries built from the link elements of a post have pairwise
\* different decoded target urls; a link element whose target already has an
\* entry adds none; and a turn of the reduce leaves every entry's url and
\* every field that is not null as they are, a null field changing only in the
\* entry of the link's own target and only to what that link shows.
C26_LinkRefsUniqueAndFilledOnce ==
    /\ [](arg[1] = "links"
            => \A i, j \in 1..Len(Ret) : Ret[i].url = Ret[j].url => i = j)
    /\ [][arg[1] = "links" /\ arg' # arg
            => LET old == Ret
                   new == res'[2]
                   link == arg[2][arg[3] + 1]
                   url == searchParamsGet(link.href)
               IN  /\ Len(new) >= Len(old)
                   /\ (\E i \in 1..Len(old) : old[i].url = url) => Len(new) = Len(old)
                   /\ \A i \in 1..Len(old) :
                         /\ new[i].url = old[i].url
                         /\ \A f \in LinkFields :
                               IF old[i][f] # Null
                               THEN new[i][f] = old[i][f]
                               ELSE \/ new[i][f] = Null
                                    \/ /\ old[i].url = url
                                       /\ new[i][f] = link[f]]_vars

\* two link elements of one target, written differently: the second fills
\* the thumbnail the first lacked and leaves the domain the first gave
C26_Witness ==
    /\ arg[1] = "links"
    /\ arg[3] = 2
    /\ arg[2][1].href = <<"href", "plain", "a">>
    /\ arg[2][2].href = <<"href", "percent", "a">>
    /\ arg[2][1].thumbUrl = <<"">> /\ arg[2][2].thumbUrl = <<"t1">>
    /\ arg[2][1].domain = <<"d">> /\ arg[2][2].domain = Null
    /\ arg[2][1].title = <<"x">> /\ arg[2][2].title = <<"">>
    /\ Len(res[2]) = 1
    /\ res[2][1].thumbUrl = <<"t1">>
    /\ res[2][1].domain = <<"d">>
    /\ res[2][1].title = <<"x">>
    /\ res[2][1].text = <<"y">>

(* ------------------------------ counting patterns --------------------- *)
\* the integer that a captured string of one or two decimal digits writes
Decimal(digits) == IF Len(digits) = 1 THEN digits[1] ELSE 10 * digits[1] + digits[2]

\* C27: maxFromMatches of the matches of a counting pattern is 0 when there
\* is no match, and otherwise the integer written by one of the matched
\* strings that none of the others exceeds.
C27_MaxOfParsedMatches ==
    res[1] = "max"
        => LET matches == arg[2]
               count == res[2]
           IN  /\ matches = <<>> => count = 0
               /\ matches # <<>> => \E i \in 1..Len(matches) : Decimal(matches[i]) = count
               /\ \A i \in 1..Len(matches) : Decimal(matches[i]) <= count

\* the matches 9, 10 and 07: the greatest integer is the second match
C27_Witness ==
    /\ res[1] = "max"
    /\ arg[2] = <<<<9>>, <<1, 0>>, <<0, 7>>>>
    /\ res[2] = 10

C28_BreakdownNeverFailsStats ==
    (res[1] = "stats" /\ arg[2].evalOk /\ arg[2].fragment.kind # "edges")
        => /\ ~res[2].threw
           /\ res[2].value.reactionsBreakdown = EmptyObject
           /\ res[2].value.comments = maxFromMatches(arg[2].comments)
           /\ res[2].value.reactions = maxFromMatches(arg[2].reactions)
           /\ res[2].value.shares = maxFromMatches(arg[2].shares)

(* --------------------------- order of the block checks ---------------- *)
\* the checks in the order claimed, and the namespace each fails with
CheckOrder == <<"login", "mobile captcha", "mobile layout", "desktop captcha", "title">>
CheckNamespace == <<"login", "captcha", "mobile-meta", "captcha", "internal">>

\* the k-th check, taken alone, finds the page blocked
CheckMatches(k, useMobile, pg) ==
    CASE k = 1 -> pg.next
      [] k = 2 -> useMobile /\ pg.mobileCaptcha
      [] k = 3 -> useMobile /\ (~pg.mobileMeta \/ ~pg.mobileBodyClass)
      [] k = 4 -> ~useMobile /\ pg.desktopCaptcha
      [] k = 5 -> pg.title = "Error"

\* C30: the block checks fail with the namespace of the first check, in the
\* order login, mobile captcha, mobile layout, desktop captcha, title, that
\* finds the page blocked, whatever the later checks would find; when none
\* does, no classified failure is raised.
C30_FirstMatchingCheckDecides ==
    res[1] = "check"
        => LET hits == {k \in 1..Len(CheckOrder) : CheckMatches(k, arg[2], arg[3])}
           IN  IF hits = {}
               THEN res[2].class # "InfoError"
               ELSE LET first == CHOOSE k \in hits : \A j \in hits : k <= j
                    IN  res[2] = InfoError(CheckNamespace[first])

\* a mobile page with the captcha marker and without the layout markers
\* failed with captcha
C30_Witness ==
    /\ res[1] = "check"
    /\ arg[2]
    /\ ~arg[3].next
    /\ arg[3].mobileCaptcha
    /\ ~arg[3].mobileMeta /\ ~arg[3].mobileBodyClass
    /\ res[2] = InfoError("captcha")

(* --------------------------- failures in the seed loop ---------------- *)
\* the classifier gives the url the label POST or PHOTO
Enqueued(url) == ~getUrlLabel(url).threw /\ getUrlLabel(url).value \in {LABELS.POST, LABELS.PHOTO}

\* C31: a turn of the seed loop in which an InfoError is raised logs a
\* warning for its url and goes on to the next start url with the queue as it
\* was; the run is aborted in the loop only by a failure that is no InfoError,
\* and then stays aborted with nothing fetched, saved or pushed; and a loop
\* that has come to its end has gone through every start url, each one with
\* its warning or, if it is a POST or PHOTO url, its request.
C31_InfoErrorSkipsOneSeed ==
    /\ [](/\ phase = "seeded"
                => \A i \in 1..Len(seeds) :
                      /\ getUrlLabel(seeds[i]).threw => seeds[i] \in warnings
                      /\ Enqueued(seeds[i]) => Rewritten(seeds[i]) \in DOMAIN requests
          /\ phase = "aborted"
                => /\ mainError.class # "InfoError"
                   /\ fetches = 0 /\ persisted = <<>> /\ dataset = <<>>)
    /\ [][/\ (phase = "seed" /\ seedIx <= Len(seeds) /\ getUrlLabel(seeds[seedIx]).threw)
                => /\ phase' = "seed"
                   /\ seedIx' = seedIx + 1
                   /\ seeds[seedIx] \in warnings'
                   /\ UNCHANGED <<requests, queue>>
          /\ (phase = "seed" /\ phase' = "aborted")
                => /\ Enqueued(seeds[seedIx])
                   /\ mainError' = PlainError("addRequest failed")
                   /\ UNCHANGED <<requests, queue, warnings>>
          /\ phase = "aborted" => phase' = "aborted"]_vars

\* the first start url raised an InfoError and the second one, a post of
\* bob, has its request in the queue
C31_Witness ==
    /\ phase = "seeded"
    /\ Len(seeds) = 2
    /\ getUrlLabel(seeds[1]).threw
    /\ warnings = {seeds[1]}
    /\ seeds[2] = SeedUrl("m", "posts", "bob")
    /\ queue = <<seeds[2]>>
    /\ requests[seeds[2]].username = "bob"

(* ------------------------------ rejected inputs ----------------------- *)
\* the input is missing or no object, startUrls is no array or an empty one,
\* or the language is none of languages.json
Rejected(inp) ==
    \/ inp.kind # "object"
    \/ ~inp.startUrls.isArray
    \/ Len(inp.startUrls.urls) = 0
    \/ inp.language \notin LANGUAGES_json

\* C32: a run whose input is rejected never gets past the checks of its
\* input; the seed loop is entered only with start urls loaded; and a run
\* aborted before the seed loop has enqueued no request, fetched no page,
\* saved no state and pushed nothing.
C32_RejectedInputAborts ==
    /\ Rejected(input) => phase \in {"input", "aborted"}
    /\ phase \in {"seed", "seeded"} => Len(seeds) > 0
    /\ (phase = "aborted" /\ seedIx = 1 /\ mainError # PlainError("addRequest failed"))
          => /\ requests = EmptyObject
             /\ queue = <<>>
             /\ fetches = 0
             /\ persisted = <<>>
             /\ dataset = <<>>

(* ------------------------- write before the video --------------------- *)
\* some POST request of this author has had map.write called for it
WrittenFor(username) ==
    \E r \in written : requests[r].label = LABELS.POST /\ requests[r].username = username

\* C33: in a run that starts with an empty store and only start urls in the
\* queue, every VIDEO request is of an author for whom a POST handler has
\* called map.write; a handler enqueues it only after its own write for that
\* author; and an append is applied only for an author written before, whose
\* record is then in the store.
C33_VideoOnlyAfterWrite ==
    /\ [](\A u \in DOMAIN requests :
             requests[u].label = LABELS.VIDEO => WrittenFor(requests[u].username))
    /\ [][\A w \in Workers :
            /\ (pc[w] = "enqueue" /\ trace'[w] # trace[w])
                  => /\ Label(w) = LABELS.POST
                     /\ \E i \in 1..Len(trace[w]) :
                           /\ trace[w][i].op = "write"
                           /\ trace[w][i].username = req(w).username
                     /\ trace'[w][Len(trace'[w])].username = req(w).username
            /\ (pc[w] = "merge" /\ pc'[w] = "done")
                  => /\ WrittenFor(req(w).username)
                     /\ req(w).username \in DOMAIN state]_vars

\* a VIDEO request of alice has been handled and its append applied, after
\* the write of alice's post
C33_Witness ==
    /\ \E u \in DOMAIN requests :
          /\ requests[u].label = LABELS.VIDEO
          /\ requests[u].status = "handled"
          /\ requests[u].username = "alice"
    /\ WrittenFor("alice")
    /\ "postVideos" \in DOMAIN state["alice"]

(* ---------------------- append without a stored record ---------------- *)
\* the record holds a postVideos list and nothing else
OnlyPostVideos(record) == DOMAIN record = {"postVideos"}

\* C34: an append applied (the run is not interrupted in it) for an author
\* who has no record in the store does not fail and leaves for that author a record that holds nothing but
\* postVideos, a list of the one VideoRef of this request; and the dataset
\* pushed at the end has an item for every such record still in the store.
C34_AppendWithoutRecord ==
    /\ [][\A w \in Workers :
            (/\ pc[w] = "merge" /\ pc'[w] # "merge"
             /\ resumes' = resumes
             /\ req(w).username \notin DOMAIN state)
            => /\ pc'[w] = "done"
               /\ err'[w] = NoError
               /\ req(w).username \in DOMAIN state'
               /\ OnlyPostVideos(state'[req(w).username])
               /\ state'[req(w).username].postVideos
                     = <<[postUrl |-> cur[w], videoUrl |-> videoUrl[w]]>>]_vars
    /\ [](phase = "end"
            => \A u \in DOMAIN state :
                  OnlyPostVideos(state[u])
                  => \E i \in 1..Len(dataset[1]) :
                        /\ OnlyPostVideos([k \in DOMAIN dataset[1][i] \ {"#version", "#finishedAt"}
                                             |-> dataset[1][i][k]])
                        /\ dataset[1][i].postVideos = state[u].postVideos)

\* a restarted run whose store had lost alice's record has ended: her
\* record is the VideoRef alone, and it is the one item of the dataset
C34_Witness ==
    /\ phase = "end"
    /\ resumes > 0
    /\ "alice" \in DOMAIN state
    /\ OnlyPostVideos(state["alice"])
    /\ Len(state["alice"].postVideos) = 1
    /\ Len(dataset) = 1
    /\ Len(dataset[1]) = 1
    /\ dataset[1][1].postVideos = state["alice"].postVideos

====
